---- MODULE Spec2Model ----
(***************************************************************************)
(* Model of the click simulator of                                         *)
(* XMem/inference/interact/fbrs/inference/clicker.py (class Clicker).      *)
(*                                                                         *)
(* Arrays are functions over pixel coordinates <<row, col>>, 0-based as in *)
(* numpy.  A Clicker object is a record of its attributes; None (and an    *)
(* attribute that was never set) is the empty tuple.  Every method is an   *)
(* operator from the object (and the arguments) to the object after the    *)
(* call; the actions apply them to the variables.                          *)
(*                                                                         *)
(* distance_transform_edt returns sqrt(d2) for the exact integer squared   *)
(* distance d2 to the nearest zero cell.  The program only multiplies the  *)
(* result by 0/1, takes its maximum and compares values with > and ==, and *)
(* sqrt is strictly increasing on the non-negative integers, so the model  *)
(* keeps d2.                                                               *)
(***************************************************************************)
EXTENDS Integers, Sequences, FiniteSets, TLC

VARIABLES gt_mask, not_ignore_mask, not_clicked_map,
          num_pos_clicks, num_neg_clicks, clicks_list,
          last_call, err, num_simulated, returned

vars == <<gt_mask, not_ignore_mask, not_clicked_map,
          num_pos_clicks, num_neg_clicks, clicks_list,
          last_call, err, num_simulated, returned>>

\* Shape of the ground-truth label map, and the longest click list explored.
H == 2
W == 2
MaxClicks == 2

\* Clicker.__init__: ignore_label=-1, and gt_mask == 1 is the foreground.
DefaultIgnoreLabel == -1
ForegroundLabel == 1

None == <<>>

Pix(h, w) == (0 .. h - 1) \X (0 .. w - 1)
Pixels == Pix(H, W)

\* Click = namedtuple("Click", ["is_positive", "coords"])
Click(is_positive, coords) == [is_positive |-> is_positive, coords |-> coords]
\* Row-major scan order of numpy: smallest row, then smallest column.
RowMajorLeq(p, q) == p[1] < q[1] \/ (p[1] = q[1] /\ p[2] <= q[2])

SetMax(S) == CHOOSE x \in S : \A y \in S : y <= x
SetMin(S) == CHOOSE x \in S : \A y \in S : x <= y

\* A numpy operation returns a new array whose cells are computed once: the
\* function is built in full (f @@ <<>> equals f).
NewArray(f) == f @@ <<>>

\* np.ones_like(a, dtype=bool)
ones_like(a) == NewArray([p \in DOMAIN a |-> TRUE])

\* arr[coords[0], coords[1]] = value
SetItem(arr, coords, value) == [arr EXCEPT ![coords] = value]

----------------------------------------------------------------------------
\* The object as a record of its attributes.
Self ==
  [gt_mask |-> gt_mask, not_ignore_mask |-> not_ignore_mask,
   not_clicked_map |-> not_clicked_map,
   num_pos_clicks |-> num_pos_clicks, num_neg_clicks |-> num_neg_clicks,
   clicks_list |-> clicks_list]

\* reset_clicks that leaves num_neg_clicks as it is.
reset_clicks_keep_neg(s) ==
  [s EXCEPT
     !.not_clicked_map = IF s.gt_mask # None THEN ones_like(s.gt_mask) ELSE @,
     !.num_pos_clicks = 0,
     !.clicks_list = <<>>]

reset_clicks(s) ==
  [s EXCEPT
     !.not_clicked_map = IF s.gt_mask # None THEN ones_like(s.gt_mask) ELSE @,
     !.num_pos_clicks = 0,
     !.num_neg_clicks = 0,
     !.clicks_list = <<>>]

\* add_click with the polarity test lost: every click counts as positive.
add_click_pos_only(s, click) ==
  LET coords == click.coords IN
  [s EXCEPT
     !.num_pos_clicks = @ + 1,
     !.clicks_list = Append(@, click),
     !.not_clicked_map =
        IF s.gt_mask # None THEN SetItem(@, coords, FALSE) ELSE @]

\* add_click that inserts the click at the front of the list.
add_click_front(s, click) ==
  LET coords == click.coords IN
  [s EXCEPT
     !.num_pos_clicks = IF click.is_positive THEN @ + 1 ELSE @,
     !.num_neg_clicks = IF click.is_positive THEN @ ELSE @ + 1,
     !.clicks_list = <<click>> \o @,
     !.not_clicked_map =
        IF s.gt_mask # None THEN SetItem(@, coords, FALSE) ELSE @]

\* add_click that makes a not_clicked_map when there is no ground truth.
add_click_makes_map(s, click) ==
  LET coords == click.coords IN
  [s EXCEPT
     !.num_pos_clicks = IF click.is_positive THEN @ + 1 ELSE @,
     !.num_neg_clicks = IF click.is_positive THEN @ ELSE @ + 1,
     !.clicks_list = Append(@, click),
     !.not_clicked_map =
        IF s.gt_mask # None THEN SetItem(@, coords, FALSE)
        ELSE [p \in Pixels |-> p # coords]]

add_click(s, click) ==
  LET coords == click.coords IN
  [s EXCEPT
     !.num_pos_clicks = IF click.is_positive THEN @ + 1 ELSE @,
     !.num_neg_clicks = IF click.is_positive THEN @ ELSE @ + 1,
     !.clicks_list = Append(@, click),
     !.not_clicked_map =
        IF s.gt_mask # None THEN SetItem(@, coords, FALSE) ELSE @]

\* list.pop() on a non-empty list, then the counter and the map.  On an empty
\* list pop() raises IndexError before any other statement runs.
_remove_last_click(s) ==
  LET n == Len(s.clicks_list)
      click == s.clicks_list[n]
      coords == click.coords IN
  [s EXCEPT
     !.clicks_list = SubSeq(@, 1, n - 1),
     !.num_pos_clicks = IF click.is_positive THEN @ - 1 ELSE @,
     !.num_neg_clicks = IF click.is_positive THEN @ ELSE @ - 1,
     !.not_clicked_map =
        IF s.gt_mask # None THEN SetItem(@, coords, TRUE) ELSE @]

\* for click in clicks: self.add_click(click)
RECURSIVE AddAll(_, _)
AddAll(s, clicks) ==
  IF clicks = <<>> THEN s
  ELSE AddAll(add_click(s, Head(clicks)), Tail(clicks))

\* copy.deepcopy of a list of Click tuples: a new list of new tuples with
\* equal fields.
deepcopy(clicks) ==
  [i \in 1 .. Len(clicks) |->
     Click(clicks[i].is_positive, <<clicks[i].coords[1], clicks[i].coords[2]>>)]

get_state(s) == deepcopy(s.clicks_list)

\* set_state without the reset: the entries are added to the current state.
set_state_no_reset(s, state) == AddAll(s, state)

set_state(s, state) == AddAll(reset_clicks(s), state)

\* get_clicks that takes one click more than asked for.
get_clicks_one_more(s, clicks_limit) ==
  IF clicks_limit = None THEN s.clicks_list
  ELSE LET n == clicks_limit[1] + 1 IN
       SubSeq(s.clicks_list, 1,
              IF n < Len(s.clicks_list) THEN n ELSE Len(s.clicks_list))

\* self.clicks_list[:clicks_limit].  The argument is None (the default, the
\* whole list) or the one-element tuple <<n>> for the integer n; a negative
\* n counts from the end of the list.
get_clicks(s, clicks_limit) ==
  IF clicks_limit = None THEN s.clicks_list
  ELSE LET n == clicks_limit[1] IN
       SubSeq(s.clicks_list, 1,
              IF n >= 0
                THEN IF n < Len(s.clicks_list) THEN n ELSE Len(s.clicks_list)
                ELSE IF Len(s.clicks_list) + n > 0
                       THEN Len(s.clicks_list) + n ELSE 0)

\* get_state that returns self.clicks_list itself.
get_state_shares_alias(s) == TRUE

\* Whether the list a getter returns is the object self.clicks_list itself:
\* deepcopy and a slice both build a new list.
get_state_shares(s) == FALSE

get_clicks_shares(s, clicks_limit) == FALSE

__len__(s) == Len(s.clicks_list)

\* Clicker.__init__(gt_mask, init_clicks, ignore_label); gt_mask is a label
\* map or None.
__init__(gt, init_clicks, ignore_label) ==
  LET s0 == [gt_mask |->
               IF gt # None
                 THEN [p \in DOMAIN gt |-> gt[p] = ForegroundLabel] ELSE None,
             not_ignore_mask |->
               IF gt # None
                 THEN [p \in DOMAIN gt |-> gt[p] # ignore_label] ELSE None,
             not_clicked_map |-> None,
             num_pos_clicks |-> 0, num_neg_clicks |-> 0,
             clicks_list |-> <<>>]
      s1 == reset_clicks(s0) IN
  IF init_clicks # None THEN AddAll(s1, init_clicks) ELSE s1

----------------------------------------------------------------------------
\* numpy arrays of two dimensions: shape, broadcasting, elementwise operators.
Shape(a) ==
  <<Cardinality({p \in DOMAIN a : p[2] = 0}),
    Cardinality({p \in DOMAIN a : p[1] = 0})>>

Broadcastable(sa, sb) ==
  \A k \in 1 .. 2 : sa[k] = sb[k] \/ sa[k] = 1 \/ sb[k] = 1

BroadcastShape(sa, sb) ==
  <<IF sa[1] >= sb[1] THEN sa[1] ELSE sb[1],
    IF sa[2] >= sb[2] THEN sa[2] ELSE sb[2]>>

\* The cell of an array of shape sa that cell p of the broadcast result reads.
BroadcastIndex(p, sa) ==
  <<IF sa[1] = 1 THEN 0 ELSE p[1], IF sa[2] = 1 THEN 0 ELSE p[2]>>

logical_not(a) == NewArray([p \in DOMAIN a |-> ~a[p]])

logical_and(a, b) ==
  LET sa == Shape(a)
      sb == Shape(b)
      sr == BroadcastShape(sa, sb) IN
  NewArray([p \in Pix(sr[1], sr[2]) |->
              a[BroadcastIndex(p, sa)] /\ b[BroadcastIndex(p, sb)]])

\* dt * not_clicked_map: a number array times a boolean array.
multiply(dt, mask) ==
  LET sa == Shape(dt)
      sb == Shape(mask)
      sr == BroadcastShape(sa, sb) IN
  NewArray([p \in Pix(sr[1], sr[2]) |->
              IF mask[BroadcastIndex(p, sb)]
                THEN dt[BroadcastIndex(p, sa)] ELSE 0])

\* np.pad(a, ((1, 1), (1, 1)), "constant"): a border of False cells.
pad(a) ==
  LET sa == Shape(a) IN
  NewArray([p \in Pix(sa[1] + 2, sa[2] + 2) |->
              IF p[1] \in 1 .. sa[1] /\ p[2] \in 1 .. sa[2]
                THEN a[<<p[1] - 1, p[2] - 1>>] ELSE FALSE])

\* A crop that takes the window at the top left corner: a[0:-2, 0:-2].
crop_top_left(a) ==
  LET sa == Shape(a) IN
  NewArray([p \in Pix(sa[1] - 2, sa[2] - 2) |-> a[p]])

\* a[1:-1, 1:-1]
crop(a) ==
  LET sa == Shape(a) IN
  NewArray([p \in Pix(sa[1] - 2, sa[2] - 2) |-> a[<<p[1] + 1, p[2] + 1>>]])

SqDist(p, q) == (p[1] - q[1]) * (p[1] - q[1]) + (p[2] - q[2]) * (p[2] - q[2])

\* A distance transform that looks for the nearest False cell in the row of
\* the cell only.
distance_transform_rowwise(a) ==
  LET zeros == {q \in DOMAIN a : ~a[q]} IN
  NewArray([p \in DOMAIN a |->
              IF ~a[p] THEN 0
              ELSE SetMin({SqDist(p, q) : q \in {z \in zeros : z[1] = p[1]}})])

\* scipy.ndimage.distance_transform_edt, squared: 0 on a False cell, else the
\* squared distance to the nearest False cell.
distance_transform_edt(a) ==
  LET zeros == {q \in DOMAIN a : ~a[q]} IN
  NewArray([p \in DOMAIN a |->
              IF ~a[p] THEN 0 ELSE SetMin({SqDist(p, q) : q \in zeros})])

np_max(a) == SetMax({a[p] : p \in DOMAIN a})

\* np.where(a == v), element [0] of both index arrays: the first match in
\* row-major order.
where_first(a, v) ==
  LET hits == {p \in DOMAIN a : a[p] = v} IN
  CHOOSE p \in hits : \A q \in hits : RowMajorLeq(p, q)

\* The comparison with >= in place of >.
is_positive_click_ge(fn_max_dist, fp_max_dist) == fn_max_dist >= fp_max_dist

\* fn_max_dist > fp_max_dist
is_positive_click(fn_max_dist, fp_max_dist) == fn_max_dist > fp_max_dist

\* np.logical_and(np.logical_and(A, B), self.not_ignore_mask)
error_mask(a, b, not_ignore) == logical_and(logical_and(a, b), not_ignore)

\* The distance map of an error mask with padding=True: pad, transform, crop.
padded_dt(mask) == crop(distance_transform_edt(pad(mask)))

\* padded_dt of every mask of the ground-truth shape, computed once.
DistanceTable == NewArray([m \in [Pixels -> BOOLEAN] |-> padded_dt(m)])

\* The distance map without the multiplication by not_clicked_map.
masked_dt_unmasked(mask, not_clicked) ==
  IF DOMAIN mask = Pixels THEN DistanceTable[mask] ELSE padded_dt(mask)

\* The distance map with the clicked pixels zeroed.
masked_dt(mask, not_clicked) ==
  multiply(IF DOMAIN mask = Pixels THEN DistanceTable[mask]
           ELSE padded_dt(mask),
           not_clicked)

\* _get_click that takes the clicked pixels from the coordinates in
\* clicks_list in place of not_clicked_map.
_get_click_by_list(s, pred_mask) ==
  IF ~Broadcastable(Shape(s.gt_mask), Shape(pred_mask))
    THEN [err |-> "ValueError", click |-> None]
    ELSE
      LET not_listed == [p \in DOMAIN s.not_clicked_map |->
                           \A i \in 1 .. Len(s.clicks_list) :
                             s.clicks_list[i].coords # p]
          fn_mask == error_mask(s.gt_mask, logical_not(pred_mask),
                                s.not_ignore_mask)
          fp_mask == error_mask(logical_not(s.gt_mask), pred_mask,
                                s.not_ignore_mask)
          fn_mask_dt == masked_dt(fn_mask, not_listed)
          fp_mask_dt == masked_dt(fp_mask, not_listed)
          fn_max_dist == np_max(fn_mask_dt)
          fp_max_dist == np_max(fp_mask_dt)
          is_positive == is_positive_click(fn_max_dist, fp_max_dist)
          coords == IF is_positive
                      THEN where_first(fn_mask_dt, fn_max_dist)
                      ELSE where_first(fp_mask_dt, fp_max_dist) IN
      [err |-> "none", click |-> Click(is_positive, coords)]

\* Clicker._get_click(pred_mask) with padding=True.  np.logical_and raises
\* ValueError when the shapes cannot be broadcast together.
_get_click(s, pred_mask) ==
  IF ~Broadcastable(Shape(s.gt_mask), Shape(pred_mask))
    THEN [err |-> "ValueError", click |-> None]
    ELSE
      LET fn_mask == error_mask(s.gt_mask, logical_not(pred_mask),
                                s.not_ignore_mask)
          fp_mask == error_mask(logical_not(s.gt_mask), pred_mask,
                                s.not_ignore_mask)
          fn_mask_dt == masked_dt(fn_mask, s.not_clicked_map)
          fp_mask_dt == masked_dt(fp_mask, s.not_clicked_map)
          fn_max_dist == np_max(fn_mask_dt)
          fp_max_dist == np_max(fp_mask_dt)
          is_positive == is_positive_click(fn_max_dist, fp_max_dist)
          coords == IF is_positive
                      THEN where_first(fn_mask_dt, fn_max_dist)
                      ELSE where_first(fp_mask_dt, fp_max_dist) IN
      [err |-> "none", click |-> Click(is_positive, coords)]

\* make_next_click that returns quietly when there is no ground truth.
make_next_click_lenient(s, pred_mask) ==
  IF s.gt_mask = None
    THEN [self |-> s, err |-> "none"]
    ELSE LET r == _get_click(s, pred_mask) IN
         IF r.err # "none"
           THEN [self |-> s, err |-> r.err]
           ELSE [self |-> add_click(s, r.click), err |-> "none"]

\* Clicker.make_next_click(pred_mask): the object after the call and the
\* exception it raised ("none" when it returned).
make_next_click(s, pred_mask) ==
  IF s.gt_mask = None
    THEN [self |-> s, err |-> "AssertionError"]
    ELSE LET r == _get_click(s, pred_mask) IN
         IF r.err # "none"
           THEN [self |-> s, err |-> r.err]
           ELSE [self |-> add_click(s, r.click), err |-> "none"]

\* remove_last_click that skips the pop on an empty list and still counts
\* a negative click down.
remove_last_click_lenient(s) ==
  IF s.clicks_list = <<>>
    THEN [self |-> [s EXCEPT !.num_neg_clicks = @ - 1], err |-> "none"]
    ELSE [self |-> _remove_last_click(s), err |-> "none"]

\* Clicker._remove_last_click as called: IndexError from list.pop() on an
\* empty list.
remove_last_click(s) ==
  IF s.clicks_list = <<>>
    THEN [self |-> s, err |-> "IndexError"]
    ELSE [self |-> _remove_last_click(s), err |-> "none"]

----------------------------------------------------------------------------
\* Inputs.  Arrays are drawn free at the four corner cells of their shape,
\* with one common value at all the other cells: every array of a shape of
\* at most two rows and two columns, and a family that stays small beyond.
Corners(h, w) == {0, h - 1} \X {0, w - 1}

CornerArrays(h, w, values) ==
  {[p \in Pix(h, w) |-> IF p \in Corners(h, w) THEN c[p] ELSE fill] :
     c \in [Corners(h, w) -> values], fill \in values}

Labels == {0, ForegroundLabel, DefaultIgnoreLabel}

\* Clicks handed to add_click: both polarities at the corner pixels.
ClickInputs == {Click(b, p) : b \in BOOLEAN, p \in Corners(H, W)}

\* Ground-truth label maps handed to the constructor.
GtInputs == CornerArrays(H, W, Labels)

\* Predicted masks handed to make_next_click: masks of the ground-truth
\* shape, masks numpy broadcasts to it (one row, one column, one cell) and
\* masks it cannot broadcast (one row or one column too many).
BroadcastShapes == {<<1, W>>, <<H, 1>>, <<1, 1>>}
OtherShapes == {<<H + 1, W>>, <<H, W + 1>>}

PredInputs ==
  UNION {CornerArrays(sh[1], sh[2], BOOLEAN) :
           sh \in {<<H, W>>} \cup BroadcastShapes}
    \cup {[p \in Pix(sh[1], sh[2]) |-> FALSE] : sh \in OtherShapes}

\* Click sequences handed to set_state and, as init_clicks, to the
\* constructor: a prefix of the current list (a checkpoint taken earlier, the
\* whole list for set_state(get_state())), one click, or one click twice.
FixedStates ==
  {<<>>} \cup {<<c>> : c \in ClickInputs} \cup {<<c, c>> : c \in ClickInputs}

StateInputs(s) ==
  {SubSeq(get_state(s), 1, n) : n \in 0 .. Len(s.clicks_list)} \cup FixedStates

----------------------------------------------------------------------------
\* Specification Spec: one Clicker driven by any sequence of calls.  The
\* ground truths are None, the three uniform label maps and a map with a
\* foreground first row and an ignored last pixel; the predictions are the
\* uniform masks of every shape, the first-row mask and the ground truth
\* itself (a perfect prediction).
FirstRowGt ==
  [p \in Pixels |->
     IF p[1] = 0 THEN ForegroundLabel
     ELSE IF p = <<H - 1, W - 1>> THEN DefaultIgnoreLabel ELSE 0]

SpecGtInputs ==
  {None, FirstRowGt} \cup {[p \in Pixels |-> l] : l \in Labels}

SpecPredInputs(s) ==
  {[p \in Pix(sh[1], sh[2]) |-> b] :
     sh \in {<<H, W>>} \cup BroadcastShapes \cup OtherShapes, b \in BOOLEAN}
    \cup {[p \in Pixels |-> p[1] = 0]}
    \cup (IF s.gt_mask # None THEN {s.gt_mask} ELSE {})

Apply(s) ==
  /\ gt_mask' = s.gt_mask
  /\ not_ignore_mask' = s.not_ignore_mask
  /\ not_clicked_map' = s.not_clicked_map
  /\ num_pos_clicks' = s.num_pos_clicks
  /\ num_neg_clicks' = s.num_neg_clicks
  /\ clicks_list' = s.clicks_list

\* The state after Clicker(gt_mask=gt, init_clicks=init_clicks).
Constructed(gt, init_clicks) ==
  LET s == __init__(gt, init_clicks, DefaultIgnoreLabel) IN
  /\ gt_mask = s.gt_mask
  /\ not_ignore_mask = s.not_ignore_mask
  /\ not_clicked_map = s.not_clicked_map
  /\ num_pos_clicks = s.num_pos_clicks
  /\ num_neg_clicks = s.num_neg_clicks
  /\ clicks_list = s.clicks_list
  /\ last_call = "__init__"
  /\ err = "none"
  /\ num_simulated = 0
  /\ returned = None

Init ==
  \E gt \in SpecGtInputs, init_clicks \in FixedStates :
    Constructed(gt, init_clicks)

\* last_call names the method called last and err the exception it raised
\* ("none" when it returned).  num_simulated counts the clicks at the end of
\* clicks_list that successive make_next_click calls appended; any other
\* call that changes the list ends the run.  returned is the list the last
\* getter call handed to the caller, with the call, its argument and whether
\* the list is the object self.clicks_list (None before any getter call).
\* append and pop change self.clicks_list in place, and with it a returned
\* list that is the same object; reset_clicks binds self.clicks_list to a new
\* list and leaves the old object as it is.
Caller(in_place) ==
  returned' =
    IF returned = None THEN None
    ELSE IF returned.shared /\ in_place
           THEN [returned EXCEPT !.value = clicks_list']
           ELSE [returned EXCEPT !.shared = FALSE]

AddClickOf(clicks) ==
  \E click \in clicks :
    /\ Len(clicks_list) < MaxClicks
    /\ Apply(add_click(Self, click))
    /\ last_call' = "add_click"
    /\ err' = "none"
    /\ num_simulated' = 0
    /\ Caller(TRUE)

AddClick == AddClickOf(ClickInputs)

RemoveLastClick ==
  LET r == remove_last_click(Self) IN
  /\ Apply(r.self)
  /\ last_call' = "remove_last_click"
  /\ err' = r.err
  /\ num_simulated' = 0
  /\ Caller(TRUE)

ResetClicks ==
  /\ Apply(reset_clicks(Self))
  /\ last_call' = "reset_clicks"
  /\ err' = "none"
  /\ num_simulated' = 0
  /\ Caller(FALSE)

SetStateOf(states) ==
  \E state \in states :
    /\ Len(state) <= MaxClicks
    /\ Apply(set_state(Self, state))
    /\ last_call' = "set_state"
    /\ err' = "none"
    /\ num_simulated' = 0
    /\ Caller(FALSE)

SetState == SetStateOf(StateInputs(Self))

MakeNextClickOf(preds, limit) ==
  \E pred_mask \in preds :
    LET r == make_next_click(Self, pred_mask) IN
    /\ Len(r.self.clicks_list) <= limit
    /\ Apply(r.self)
    /\ last_call' = "make_next_click"
    /\ err' = r.err
    /\ num_simulated' = IF r.err = "none" THEN num_simulated + 1
                        ELSE num_simulated
    /\ Caller(TRUE)

MakeNextClick == MakeNextClickOf(SpecPredInputs(Self), MaxClicks)

Next ==
  \/ AddClick
  \/ RemoveLastClick
  \/ ResetClicks
  \/ SetState
  \/ MakeNextClick

Spec == Init /\ [][Next]_vars

----------------------------------------------------------------------------
\* Specification SelectSpec: one make_next_click call on a Clicker built with
\* any ground truth of GtInputs and any set of corner pixels already
\* clicked, for any prediction of PredInputs.
RECURSIVE ClicksAt(_, _)
ClicksAt(pixels, gt) ==
  IF pixels = {} THEN <<>>
  ELSE LET p == CHOOSE x \in pixels : \A y \in pixels : RowMajorLeq(x, y) IN
       <<Click(gt[p] = ForegroundLabel, p)>> \o ClicksAt(pixels \ {p}, gt)

SelectInit ==
  \E gt \in GtInputs, clicked \in SUBSET Corners(H, W) :
    Constructed(gt, ClicksAt(clicked, gt))

SelectNextClick ==
  /\ last_call = "__init__"
  /\ MakeNextClickOf(PredInputs, Len(clicks_list) + 1)

SelectNext == SelectNextClick

SelectSpec == SelectInit /\ [][SelectNext]_vars

----------------------------------------------------------------------------
\* Specification CallerSpec: a caller that also reads the Clicker.  It builds
\* the Clicker without ground truth or with FirstRowGt, adds two fixed
\* clicks, simulates clicks for the all-False prediction, undoes, resets,
\* takes snapshots with get_state, reads with get_clicks and restores the
\* list it got last (or the empty list) with set_state.
CallerClicks == {Click(TRUE, <<0, 0>>), Click(FALSE, <<H - 1, W - 1>>)}

CallerPreds == {[p \in Pixels |-> FALSE]}

\* clicks_limit arguments: omitted, -1, and 0 up to one more than the
\* longest list.
LimitInputs == {None} \cup {<<n>> : n \in -1 .. MaxClicks + 1}

attributes ==
  <<gt_mask, not_ignore_mask, not_clicked_map,
    num_pos_clicks, num_neg_clicks, clicks_list>>

GetState ==
  /\ returned' = [call |-> "get_state", clicks_limit |-> None,
                  value |-> get_state(Self),
                  shared |-> get_state_shares(Self)]
  /\ last_call' = "get_state"
  /\ err' = "none"
  /\ UNCHANGED <<attributes, num_simulated>>

GetClicks ==
  \E clicks_limit \in LimitInputs :
    /\ returned' = [call |-> "get_clicks", clicks_limit |-> clicks_limit,
                    value |-> get_clicks(Self, clicks_limit),
                    shared |-> get_clicks_shares(Self, clicks_limit)]
    /\ last_call' = "get_clicks"
    /\ err' = "none"
    /\ UNCHANGED <<attributes, num_simulated>>

CallerInit ==
  \E gt \in {None, FirstRowGt} : Constructed(gt, None)

CallerAddClick == AddClickOf(CallerClicks)

CallerSetState ==
  SetStateOf(IF returned = None THEN {<<>>} ELSE {returned.value})

CallerMakeNextClick == MakeNextClickOf(CallerPreds, MaxClicks)

CallerNext ==
  \/ CallerAddClick
  \/ RemoveLastClick
  \/ ResetClicks
  \/ CallerSetState
  \/ CallerMakeNextClick
  \/ GetState
  \/ GetClicks

CallerSpec == CallerInit /\ [][CallerNext]_vars

----------------------------------------------------------------------------
\* Specification SquareSpec: a FieldSide x FieldSide field whose ground truth
\* is a filled SquareSide x SquareSide square at any placement, no ignored
\* pixel, no initial clicks; up to two make_next_click calls with the
\* all-False prediction or the perfect one.
FieldSide == 10
SquareSide == 5

Field == Pix(FieldSide, FieldSide)

SquareGt(r0, c0) ==
  [p \in Field |->
     IF p[1] \in r0 .. r0 + SquareSide - 1 /\ p[2] \in c0 .. c0 + SquareSide - 1
       THEN ForegroundLabel ELSE 0]

SquarePreds(s) == {[p \in Field |-> FALSE], s.gt_mask}

SquareInit ==
  \E r0, c0 \in 0 .. FieldSide - SquareSide :
    Constructed(SquareGt(r0, c0), None)

SquareNextClick == MakeNextClickOf(SquarePreds(Self), 2)

SquareNext == SquareNextClick

SquareSpec == SquareInit /\ [][SquareNext]_vars

----------------------------------------------------------------------------
\* Specification BorderSpec: one make_next_click call on images of every
\* shape from 1 x 1 to MaxSide x MaxSide.  The ground truth has no ignored
\* pixel and is drawn free at the corners, the prediction likewise; pixel
\* (0, 0) and the middle pixel may be clicked already.
MaxSide == 3

Middle(h, w) == <<(h - 1) \div 2, (w - 1) \div 2>>

BorderInit ==
  \E h, w \in 1 .. MaxSide :
    \E gt \in CornerArrays(h, w, {0, ForegroundLabel}),
       clicked \in SUBSET {<<0, 0>>, Middle(h, w)} :
      Constructed(gt, ClicksAt(clicked, gt))

BorderPreds(s) ==
  LET sh == Shape(s.gt_mask) IN CornerArrays(sh[1], sh[2], BOOLEAN)

BorderNextClick ==
  /\ last_call = "__init__"
  /\ MakeNextClickOf(BorderPreds(Self), Len(clicks_list) + 1)

BorderNext == BorderNextClick

BorderSpec == BorderInit /\ [][BorderNext]_vars

----------------------------------------------------------------------------
\* Vocabulary of the properties.
ClickedCoords == {clicks_list[i].coords : i \in 1 .. Len(clicks_list)}

LastClick(s) == s.clicks_list[Len(s.clicks_list)]

AllTrue(a) == \A p \in DOMAIN a : a[p]

\* Predictions of the ground-truth shape.
SameShapePreds == CornerArrays(H, W, BOOLEAN)

\* The error regions of a prediction of the ground-truth shape.
FalseNegative(pred) ==
  [p \in Pixels |-> gt_mask[p] /\ ~pred[p] /\ not_ignore_mask[p]]

FalsePositive(pred) ==
  [p \in Pixels |-> ~gt_mask[p] /\ pred[p] /\ not_ignore_mask[p]]

\* The score of pixel p in an error region: 0 outside the region and on a
\* clicked pixel, else the squared distance to the nearest cell that is not
\* in the region, the cells around the image included.
Frame == (-1 .. H) \X (-1 .. W)

Score(region, p) ==
  IF ~region[p] \/ ~not_clicked_map[p] THEN 0
  ELSE SetMin({SqDist(p, q) :
                 q \in {x \in Frame : x \notin Pixels \/ ~region[x]}})

\* The scores of all pixels, and their maximum.
ScoreMap(region) == NewArray([p \in Pixels |-> Score(region, p)])

MaxOf(scores) == SetMax({scores[p] : p \in Pixels})

\* A Clicker as constructed, before any call.
Constructing == last_call = "__init__"

\* C1: the clicks appended by successive make_next_click calls from an empty
\* click state have pairwise distinct coordinates.
C1_NoRepeatedSimulatedClick ==
  num_simulated = Len(clicks_list) =>
    \A i, j \in 1 .. Len(clicks_list) :
      i # j => clicks_list[i].coords # clicks_list[j].coords

\* C2: with a ground truth, not_clicked_map is false exactly at the
\* coordinates of the clicks in clicks_list.
C2_NotClickedIffNoClick ==
  gt_mask # None =>
    \A p \in Pixels : not_clicked_map[p] <=> p \notin ClickedCoords

\* C3: the counters are non-negative, count the positive and the negative
\* entries of clicks_list, and add up to __len__, after every call, failed
\* calls included.
C3_CountersMatchClicks ==
  /\ num_pos_clicks >= 0
  /\ num_neg_clicks >= 0
  /\ num_pos_clicks =
       Cardinality({i \in 1 .. Len(clicks_list) : clicks_list[i].is_positive})
  /\ num_neg_clicks =
       Cardinality({i \in 1 .. Len(clicks_list) : ~clicks_list[i].is_positive})
  /\ num_pos_clicks + num_neg_clicks = __len__(Self)

\* C3 witness: a call failed on a Clicker that holds clicks of both kinds.
C3_Witness ==
  /\ err # "none"
  /\ num_pos_clicks > 0
  /\ num_neg_clicks > 0

\* C4: add_click(c) followed by remove_last_click() restores the state, for
\* every click c, one at an already clicked coordinate included.
C4_UndoRestoresState ==
  \A c \in ClickInputs :
    remove_last_click(add_click(Self, c)) = [self |-> Self, err |-> "none"]

\* C5: set_state(get_state()) leaves clicks_list, the counters and
\* not_clicked_map as they were.
C5_StateRoundTrip == set_state(Self, get_state(Self)) = Self

\* C6: make_next_click appends a positive click iff the largest
\* false-negative score exceeds the largest false-positive score (a negative
\* one on equality), at the row-major-first pixel whose score in the chosen
\* region is that region's maximum.
C6_SelectionRule ==
  Constructing =>
    \A pred \in SameShapePreds :
      LET r == make_next_click(Self, pred)
          c == LastClick(r.self)
          fn == ScoreMap(FalseNegative(pred))
          fp == ScoreMap(FalsePositive(pred))
          fn_max == MaxOf(fn)
          fp_max == MaxOf(fp)
          scores == IF c.is_positive THEN fn ELSE fp
          best == IF c.is_positive THEN fn_max ELSE fp_max IN
      /\ r.err = "none"
      /\ Len(r.self.clicks_list) = Len(clicks_list) + 1
      /\ c.is_positive <=> fn_max > fp_max
      /\ c.coords \in Pixels
      /\ scores[c.coords] = best
      /\ \A q \in Pixels : scores[q] = best => RowMajorLeq(c.coords, q)

\* C6 witness: make_next_click appended a positive click at a pixel other
\* than (0, 0).
C6_Witness ==
  /\ last_call = "make_next_click"
  /\ err = "none"
  /\ LastClick(Self).is_positive
  /\ LastClick(Self).coords # <<0, 0>>

\* C7: when both maxima are 0, make_next_click appends a negative click at
\* the row-major-first pixel that is not yet clicked, never at a clicked one.
C7_ZeroErrorClickIsUnclicked ==
  gt_mask # None =>
    \A pred \in SameShapePreds :
      (/\ MaxOf(ScoreMap(FalseNegative(pred))) = 0
       /\ MaxOf(ScoreMap(FalsePositive(pred))) = 0)
        => LET c == LastClick(make_next_click(Self, pred).self) IN
           /\ ~c.is_positive
           /\ not_clicked_map[c.coords]
           /\ \A q \in Pixels : not_clicked_map[q] => RowMajorLeq(c.coords, q)

\* C8: make_next_click with a predicted mask of another shape than the
\* ground truth fails and changes nothing.
C8_ShapeMismatchFails ==
  gt_mask # None =>
    \A pred \in PredInputs :
      Shape(pred) # Shape(gt_mask) =>
        LET r == make_next_click(Self, pred) IN
        r.err # "none" /\ r.self = Self

\* C9: without a ground truth every make_next_click call fails on the
\* assertion and leaves the click list and the counters as they were.
C9_NoGroundTruthFails ==
  [][(last_call' = "make_next_click" /\ gt_mask = None) =>
       /\ err' = "AssertionError"
       /\ clicks_list' = clicks_list
       /\ num_pos_clicks' = num_pos_clicks
       /\ num_neg_clicks' = num_neg_clicks]_vars

\* C9 witness: the call failed on a Clicker that holds clicks.
C9_Witness ==
  /\ last_call = "make_next_click"
  /\ err = "AssertionError"
  /\ gt_mask = None
  /\ clicks_list # <<>>

\* C10: remove_last_click on an empty click list fails and leaves the list
\* empty, both counters 0 and not_clicked_map all true.
C10_RemoveOnEmptyFails ==
  [][(last_call' = "remove_last_click" /\ clicks_list = <<>>) =>
       /\ err' = "IndexError"
       /\ clicks_list' = <<>>
       /\ num_pos_clicks' = 0
       /\ num_neg_clicks' = 0
       /\ gt_mask' # None => AllTrue(not_clicked_map')]_vars

\* C10 witness: the call failed on a Clicker with a ground truth.
C10_Witness ==
  /\ last_call = "remove_last_click"
  /\ err = "IndexError"
  /\ clicks_list = <<>>
  /\ gt_mask # None


----------------------------------------------------------------------------
\* The predictions of Spec that have the shape of the ground truth.
SpecMaskInputs(s) == {pred \in SpecPredInputs(s) : DOMAIN pred = Pixels}

\* Click histories and counters an object with the masks of s may carry.
Histories ==
  {[clicks_list |-> <<>>, num_pos_clicks |-> 0, num_neg_clicks |-> 0],
   [clicks_list |-> <<Click(TRUE, <<0, 0>>), Click(FALSE, <<H - 1, W - 1>>)>>,
    num_pos_clicks |-> 1, num_neg_clicks |-> 1],
   [clicks_list |-> <<Click(FALSE, <<0, W - 1>>)>>,
    num_pos_clicks |-> MaxClicks, num_neg_clicks |-> 0]}

WithHistory(s, h) ==
  [s EXCEPT !.clicks_list = h.clicks_list,
            !.num_pos_clicks = h.num_pos_clicks,
            !.num_neg_clicks = h.num_neg_clicks]

\* C11: the click make_next_click chooses is a function of the ground truth,
\* the valid region, the predicted mask and not_clicked_map only: two
\* Clickers that agree on these choose the same click (or raise the same
\* exception) for every prediction of the ground-truth shape, whatever
\* their click lists and counters.
C11_ClickDependsOnMasksOnly ==
  gt_mask # None =>
    \A pred_mask \in SpecMaskInputs(Self) :
      LET r == _get_click(Self, pred_mask) IN
      \A h \in Histories : _get_click(WithHistory(Self, h), pred_mask) = r

\* Two make_next_click calls in a row, each choosing its click from the
\* masks the previous call left.
C11_Witness ==
  /\ last_call = "make_next_click"
  /\ err = "none"
  /\ num_simulated = 2

\* A label map the constructor turns into the masks of s (None without
\* ground truth).
LabelMapOf(s) ==
  IF s.gt_mask = None THEN None
  ELSE [p \in DOMAIN s.gt_mask |->
          IF s.gt_mask[p] THEN ForegroundLabel
          ELSE IF s.not_ignore_mask[p] THEN 0 ELSE DefaultIgnoreLabel]

NumPositive(clicks) ==
  Cardinality({i \in 1 .. Len(clicks) : clicks[i].is_positive})

NumNegative(clicks) ==
  Cardinality({i \in 1 .. Len(clicks) : ~clicks[i].is_positive})

CoordsOf(clicks) == {clicks[i].coords : i \in 1 .. Len(clicks)}

\* C12: from any state, set_state(state) leaves the click list equal to
\* state, the counters equal to the numbers of positive and negative entries
\* of state and not_clicked_map false exactly at the coordinates in state,
\* with the ground truth and the valid region as they were; a Clicker
\* constructed with init_clicks = state is in the same state.
C12_SetStateReplaces ==
  \A state \in StateInputs(Self) :
    LET t == set_state(Self, state) IN
    /\ t.clicks_list = state
    /\ t.num_pos_clicks = NumPositive(state)
    /\ t.num_neg_clicks = NumNegative(state)
    /\ t.gt_mask = gt_mask
    /\ t.not_ignore_mask = not_ignore_mask
    /\ t.not_clicked_map =
         IF gt_mask = None THEN None
         ELSE [p \in DOMAIN gt_mask |-> p \notin CoordsOf(state)]
    /\ t = __init__(LabelMapOf(Self), state, DefaultIgnoreLabel)

\* set_state has replaced a history by one negative click.
C12_Witness ==
  /\ last_call = "set_state"
  /\ gt_mask # None
  /\ Len(clicks_list) = 1
  /\ num_neg_clicks = 1
  /\ Cardinality({p \in Pixels : ~not_clicked_map[p]}) = 1

\* The Clicker a constructor call without init_clicks builds from the
\* ground truth of s.
Fresh(s) == __init__(LabelMapOf(s), None, DefaultIgnoreLabel)

\* C16: reset_clicks leaves the click list empty, both counters 0 and, with
\* ground truth, not_clicked_map all True, and does not change gt_mask and
\* not_ignore_mask; the object equals a freshly constructed one, and
\* make_next_click on it does what it does on a freshly constructed one for
\* the same prediction of the ground-truth shape.
C16_ResetClicks ==
  [][last_call' = "reset_clicks" =>
       /\ err' = "none"
       /\ clicks_list' = <<>>
       /\ num_pos_clicks' = 0
       /\ num_neg_clicks' = 0
       /\ gt_mask' = gt_mask
       /\ not_ignore_mask' = not_ignore_mask
       /\ not_clicked_map' =
            IF gt_mask = None THEN not_clicked_map
            ELSE [p \in DOMAIN gt_mask |-> TRUE]
       /\ Self' = Fresh(Self)
       /\ \A pred_mask \in SpecMaskInputs(Self) :
            make_next_click(Self', pred_mask) =
              make_next_click(Fresh(Self), pred_mask)]_vars

\* reset_clicks has run on a Clicker with ground truth.
C16_Witness ==
  /\ last_call = "reset_clicks"
  /\ gt_mask # None
  /\ clicks_list = <<>>
  /\ AllTrue(not_clicked_map)

\* C17: when some pixel is not clicked and lies in an error region of the
\* prediction (the larger maximum is then > 0), the click make_next_click
\* appends is on a pixel that is not clicked, is in the valid region and is
\* in the error region of the click's polarity: ground truth true and
\* prediction false for a positive click, ground truth false and prediction
\* true for a negative one.
C17_ClickOnUnclickedError ==
  Constructing =>
    \A pred \in SameShapePreds :
      (\E p \in Pixels :
          not_clicked_map[p]
            /\ (FalseNegative(pred)[p] \/ FalsePositive(pred)[p]))
        => LET c == LastClick(make_next_click(Self, pred).self) IN
           /\ not_clicked_map[c.coords]
           /\ c.coords \notin ClickedCoords
           /\ not_ignore_mask[c.coords]
           /\ IF c.is_positive
                THEN gt_mask[c.coords] /\ ~pred[c.coords]
                ELSE ~gt_mask[c.coords] /\ pred[c.coords]

\* C17 witness: with a corner already clicked, make_next_click appended a
\* negative click on a valid background pixel away from (0, 0).
C17_Witness ==
  /\ last_call = "make_next_click"
  /\ err = "none"
  /\ Len(clicks_list) >= 2
  /\ ~LastClick(Self).is_positive
  /\ LastClick(Self).coords # <<0, 0>>
  /\ ~gt_mask[LastClick(Self).coords]
  /\ not_ignore_mask[LastClick(Self).coords]
  /\ LastClick(Self).coords \notin
       {clicks_list[i].coords : i \in 1 .. Len(clicks_list) - 1}

IsPrefix(a, b) == Len(a) <= Len(b) /\ SubSeq(b, 1, Len(a)) = a

\* C18: a make_next_click that returns appends one click: the old list is
\* the new one without its last entry, the counter of the new click's
\* polarity grows by 1 and the other keeps its value, not_clicked_map
\* changes at no pixel other than the new click's, and gt_mask and
\* not_ignore_mask do not change.  A call after which the old list is not a
\* prefix of the new one is remove_last_click, reset_clicks or set_state.
C18_AppendOnly ==
  [][/\ (last_call' = "make_next_click" /\ err' = "none") =>
          LET c == clicks_list'[Len(clicks_list')] IN
          /\ Len(clicks_list') = Len(clicks_list) + 1
          /\ SubSeq(clicks_list', 1, Len(clicks_list)) = clicks_list
          /\ num_pos_clicks' = num_pos_clicks + (IF c.is_positive THEN 1 ELSE 0)
          /\ num_neg_clicks' = num_neg_clicks + (IF c.is_positive THEN 0 ELSE 1)
          /\ c.coords \in Pixels
          /\ ~not_clicked_map'[c.coords]
          /\ \A p \in Pixels \ {c.coords} :
               not_clicked_map'[p] = not_clicked_map[p]
          /\ gt_mask' = gt_mask
          /\ not_ignore_mask' = not_ignore_mask
     /\ ~IsPrefix(clicks_list, clicks_list') =>
          last_call' \in {"remove_last_click", "reset_clicks", "set_state"}
    ]_vars

\* C18 witness: make_next_click appended a positive click behind a click
\* that add_click or set_state had recorded.
C18_Witness ==
  /\ last_call = "make_next_click"
  /\ err = "none"
  /\ Len(clicks_list) = 2
  /\ num_simulated = 1
  /\ LastClick(Self).is_positive
  /\ clicks_list[1] # clicks_list[2]

Min(a, b) == IF a < b THEN a ELSE b

\* C13: get_clicks(limit) returns, for every limit >= 0, the first
\* min(limit, length) clicks in insertion order (none for limit 0) and the
\* whole list when the limit is omitted or exceeds the length, and changes
\* neither the click list nor the counters nor not_clicked_map.
C13_GetClicksPrefix ==
  [][last_call' = "get_clicks" =>
       /\ err' = "none"
       /\ UNCHANGED attributes
       /\ LET limit == returned'.clicks_limit
              value == returned'.value IN
          IF limit = None THEN value = clicks_list
          ELSE limit[1] >= 0 =>
                 /\ Len(value) = Min(limit[1], Len(clicks_list))
                 /\ \A i \in 1 .. Len(value) : value[i] = clicks_list[i]
                 /\ limit[1] = 0 => value = <<>>
                 /\ limit[1] >= Len(clicks_list) => value = clicks_list]_vars

\* C13 witness: get_clicks(1) on a list of two different clicks returned the
\* first one.
C13_Witness ==
  /\ last_call = "get_clicks"
  /\ returned.clicks_limit = <<1>>
  /\ Len(clicks_list) = 2
  /\ clicks_list[1] # clicks_list[2]
  /\ returned.value = <<clicks_list[1]>>

\* C15: the list get_state returned keeps its value through every later
\* add_click, remove_last_click, reset_clicks, set_state and make_next_click
\* call, and it is the click list of the moment get_state was called.
C15_SnapshotIndependent ==
  [][/\ last_call' = "get_state" => returned'.value = clicks_list
     /\ (returned # None /\ returned.call = "get_state"
           /\ last_call' \notin {"get_state", "get_clicks"})
          => returned'.value = returned.value]_vars

\* C15 witness: a click was undone in place after the snapshot, which still
\* holds it.
C15_Witness ==
  /\ returned # None
  /\ returned.call = "get_state"
  /\ last_call = "remove_last_click"
  /\ err = "none"
  /\ Len(returned.value) = Len(clicks_list) + 1

\* C20: on a Clicker without ground truth add_click, remove_last_click on a
\* non-empty list, reset_clicks, set_state, get_state and get_clicks return
\* without exception, the counters count the positive and the negative
\* entries of the click list after every call, gt_mask stays None and no
\* not_clicked_map is made.
C20_ClickListContainer ==
  [][gt_mask = None =>
       /\ gt_mask' = None
       /\ not_clicked_map' = None
       /\ last_call' \in {"add_click", "reset_clicks", "set_state",
                          "get_state", "get_clicks"} => err' = "none"
       /\ (last_call' = "remove_last_click" /\ clicks_list # <<>>) =>
            /\ err' = "none"
            /\ clicks_list' = SubSeq(clicks_list, 1, Len(clicks_list) - 1)
       /\ last_call' = "add_click" =>
            /\ Len(clicks_list') = Len(clicks_list) + 1
            /\ IsPrefix(clicks_list, clicks_list')
       /\ last_call' = "reset_clicks" => clicks_list' = <<>>
       /\ last_call' \in {"get_state", "get_clicks"} =>
            clicks_list' = clicks_list
       /\ num_pos_clicks' = NumPositive(clicks_list')
       /\ num_neg_clicks' = NumNegative(clicks_list')]_vars

\* C20 witness: without ground truth, a click was undone on a list of two
\* after the caller had read the list.
C20_Witness ==
  /\ gt_mask = None
  /\ not_clicked_map = None
  /\ returned # None
  /\ last_call = "remove_last_click"
  /\ err = "none"
  /\ Len(clicks_list) = 1

\* The centre pixel of the square of true cells of gt (for an even side the
\* row-major-first of the four middle pixels).
SquareCentre(gt) ==
  LET cells == {p \in DOMAIN gt : gt[p]}
      r0 == SetMin({p[1] : p \in cells})
      c0 == SetMin({p[2] : p \in cells}) IN
  <<r0 + (SquareSide - 1) \div 2, c0 + (SquareSide - 1) \div 2>>

\* C14: on a 10 x 10 field whose ground truth is a filled 5 x 5 square at any
\* placement, without ignored pixels and without clicks, make_next_click
\* with the all-False prediction appends one positive click at the centre
\* pixel of the square.
C14_SquareCentre ==
  Constructing =>
    LET r == make_next_click(Self, [p \in Field |-> FALSE]) IN
    /\ r.err = "none"
    /\ r.self.clicks_list = <<Click(TRUE, SquareCentre(gt_mask))>>

\* C14 witness: the first click on a square in the bottom right corner of
\* the field is positive and at the square's centre.
C14_Witness ==
  /\ last_call = "make_next_click"
  /\ err = "none"
  /\ gt_mask[<<FieldSide - 1, FieldSide - 1>>]
  /\ clicks_list = <<Click(TRUE, SquareCentre(gt_mask))>>

\* The distance of pixel p of an h x w image to the cells around the image,
\* and the pixels on the edge of the image.
BorderDist(p, h, w) == SetMin({p[1] + 1, h - p[1], p[2] + 1, w - p[2]})

OnEdge(p, h, w) == BorderDist(p, h, w) = 1

\* The pixels of a set that are farthest from the cells around the image.
Farthest(pixels, h, w) ==
  {p \in pixels : \A q \in pixels : BorderDist(q, h, w) <= BorderDist(p, h, w)}

\* The prediction errors of the valid region, and whether one of the two
\* error regions is the whole image.
FnMask(pred) == error_mask(gt_mask, logical_not(pred), not_ignore_mask)

FpMask(pred) == error_mask(logical_not(gt_mask), pred, not_ignore_mask)

WholeImage(pred) == AllTrue(FnMask(pred)) \/ AllTrue(FpMask(pred))

EdgeScoresOne(pred) ==
  LET sh == Shape(gt_mask)
      fn_mask_dt == masked_dt(FnMask(pred), not_clicked_map)
      fp_mask_dt == masked_dt(FpMask(pred), not_clicked_map) IN
  \A p \in DOMAIN gt_mask :
    (OnEdge(p, sh[1], sh[2]) /\ not_clicked_map[p]) =>
      /\ FnMask(pred)[p] => fn_mask_dt[p] = 1
      /\ FpMask(pred)[p] => fp_mask_dt[p] = 1

\* The statement of C19 as written: an unclicked error pixel on the image
\* edge scores exactly 1, and for an error region covering the whole image
\* the click is the row-major-first of the pixels farthest from the image
\* border, and is not pixel (0, 0).
C19_FarthestNeverOrigin ==
  Constructing =>
    \A pred \in BorderPreds(Self) :
      /\ EdgeScoresOne(pred)
      /\ WholeImage(pred) =>
           LET sh == Shape(gt_mask)
               c == LastClick(make_next_click(Self, pred).self)
               far == Farthest(DOMAIN gt_mask, sh[1], sh[2]) IN
           /\ c.coords \in far
           /\ \A q \in far : RowMajorLeq(c.coords, q)
           /\ c.coords # <<0, 0>>

\* C19: an unclicked error pixel on the image edge scores exactly 1; for an
\* error region covering the whole image with some pixel not yet clicked,
\* the click has the polarity of the region and is the row-major-first of
\* the unclicked pixels farthest from the image border, which is not pixel
\* (0, 0) when nothing is clicked and the image has at least 3 rows and 3
\* columns.
C19_FarthestUnclicked ==
  Constructing =>
    \A pred \in BorderPreds(Self) :
      /\ EdgeScoresOne(pred)
      /\ (WholeImage(pred) /\ \E p \in DOMAIN gt_mask : not_clicked_map[p]) =>
           LET sh == Shape(gt_mask)
               c == LastClick(make_next_click(Self, pred).self)
               far == Farthest({p \in DOMAIN gt_mask : not_clicked_map[p]},
                               sh[1], sh[2]) IN
           /\ c.is_positive <=> AllTrue(FnMask(pred))
           /\ c.coords \in far
           /\ \A q \in far : RowMajorLeq(c.coords, q)
           /\ (clicks_list = <<>> /\ sh[1] >= 3 /\ sh[2] >= 3) =>
                c.coords # <<0, 0>>

\* C19 witness: on a 3 x 3 image that is all foreground and predicted all
\* background, the first click is positive and at the middle pixel.
C19_Witness ==
  /\ last_call = "make_next_click"
  /\ err = "none"
  /\ Shape(gt_mask) = <<3, 3>>
  /\ AllTrue(gt_mask)
  /\ clicks_list = <<Click(TRUE, <<1, 1>>)>>

====
